---- MODULE Spec2Model ----
(***************************************************************************)
(* FreeType WPM (src/src/App.tsx): the typing-session state machine of the *)
(* TypingSpeedApp component.  The state variables are the component's      *)
(* useState cells, plus the wall clock that Date.now() reads.  Each event  *)
(* handler is one action; the timer auto-stop effect is an action that     *)
(* runs after a render and before any further event is handled.            *)
(* lastOp records the last handler or effect that acted (history only).   *)
(* Times are integers in milliseconds.  Derived ratios (WPM, accuracy) are *)
(* exact rationals [n, d] with d > 0; floating-point rounding is not       *)
(* modelled.                                                               *)
(***************************************************************************)
EXTENDS Integers, Sequences, FiniteSets, TLC

VARIABLES text, isRunning, startedAt, lastStart, accumulatedMs, now,
          totalKeystrokes, backspaces, timerMinutes, clock, lastOp

vars == <<text, isRunning, startedAt, lastStart, accumulatedMs, now,
          totalKeystrokes, backspaces, timerMinutes, clock, lastOp>>

session == <<text, isRunning, startedAt, lastStart, accumulatedMs,
             totalKeystrokes, backspaces>>

(* ---------------------------- bounds ---------------------------------- *)
\* value of Date.now() when the component mounts
Clock0 == 1000
\* the wall clock is explored up to Clock0 + MaxElapsed
MaxElapsed == 90000
\* amounts of wall-clock time that pass between two events
Steps == {30000, 60000}
\* longest text the textarea is given
MaxTextLen == 2
\* key events counted per session
MaxKeystrokes == 2
\* the wall clock of the unattended session is explored up to
\* Clock0 + MaxLiveElapsed
MaxLiveElapsed == 210000
\* longest text of the word-count sessions
MaxWordTextLen == 4
\* the formatted times cover every second boundary up to MaxFormatSeconds
MaxFormatSeconds == 125
\* largest timer option selected
MaxTimerMinutes == 3

(* ------------------------ program constants --------------------------- *)
Null == -1
MsPerMinute == 60000
CharsPerWord == 5
TimerOptions == {0, 1, 3, 5, 10}
TimerChoices == {n \in TimerOptions : n <= MaxTimerMinutes}
Chars == {"a", " "}
Whitespace == {" ", "\n", "\t"}
Keys == {"a", " ", "Enter", "Tab", "Spacebar", "Backspace", "Shift", "ArrowLeft"}

Texts == UNION {[1..n -> Chars] : n \in 0..MaxTextLen}

(* ------------------------ derived values ------------------------------ *)
timerEnabled == timerMinutes > 0
timerMs == timerMinutes * MsPerMinute

\* accumulatedMs + (isRunning && lastStart ? t - lastStart : 0)
getActiveElapsedMs(t) ==
    LET runningMs == IF isRunning /\ lastStart # Null /\ lastStart # 0
                     THEN t - lastStart ELSE 0
    IN  accumulatedMs + runningMs

activeElapsedMs == getActiveElapsedMs(now)

(* ------------------------ rationals ----------------------------------- *)
RECURSIVE GCD(_, _)
GCD(a, b) == IF b = 0 THEN a ELSE GCD(b, a % b)

Abs(x) == IF x < 0 THEN 0 - x ELSE x

\* the rational n/d in lowest terms
Rat(n, d) ==
    LET g == GCD(Abs(n), Abs(d))
    IN  IF g = 0 THEN [n |-> n, d |-> d] ELSE [n |-> n \div g, d |-> d \div g]
RLeq(a, b) == a.n * b.d <= b.n * a.d
REq(a, b) == a.n * b.d = b.n * a.d
RMul(a, b) == Rat(a.n * b.n, a.d * b.d)
RMin(a, b) == IF RLeq(a, b) THEN a ELSE b
RMax(a, b) == IF RLeq(a, b) THEN b ELSE a
isFinite(a) == a.d # 0

(* ------------------------ text functions ------------------------------ *)
RECURSIVE trimStart(_)
trimStart(s) == IF s # <<>> /\ Head(s) \in Whitespace THEN trimStart(Tail(s)) ELSE s

RECURSIVE trimEnd(_)
trimEnd(s) == IF s # <<>> /\ s[Len(s)] \in Whitespace
              THEN trimEnd(SubSeq(s, 1, Len(s) - 1)) ELSE s

trim(s) == trimEnd(trimStart(s))

\* variant of splitLength: every whitespace character separates two pieces
splitLength_everySpace(s) ==
    1 + Cardinality({i \in 1..Len(s) : s[i] \in Whitespace})

\* number of pieces of s.split(/\s+/): one more than the number of maximal
\* whitespace runs of s
splitLength(s) ==
    1 + Cardinality({i \in 1..Len(s) :
                       s[i] \in Whitespace /\ (i = 1 \/ s[i-1] \notin Whitespace)})

\* variant of computeStats: the reported accuracy is not clamped
computeStats_noClamp(txt, elapsedMs, keystrokes) ==
    LET chars == Len(txt)
        words == IF trim(txt) # <<>> THEN splitLength(trim(txt)) ELSE 0
        wpmGross == IF elapsedMs > 0
                    THEN Rat(chars * MsPerMinute, CharsPerWord * elapsedMs)
                    ELSE Rat(0, 1)
        accuracy == IF keystrokes > 0
                    THEN Rat(chars * 100, keystrokes)
                    ELSE Rat(100, 1)
        netWpm == RMul(wpmGross, Rat(accuracy.n, accuracy.d * 100))
    IN  [chars |-> chars,
         words |-> words,
         wpmGross |-> IF isFinite(wpmGross) THEN wpmGross ELSE Rat(0, 1),
         netWpm |-> IF isFinite(netWpm) THEN netWpm ELSE Rat(0, 1),
         accuracy |-> accuracy]

computeStats(txt, elapsedMs, keystrokes) ==
    LET chars == Len(txt)
        words == IF trim(txt) # <<>> THEN splitLength(trim(txt)) ELSE 0
        wpmGross == IF elapsedMs > 0
                    THEN Rat(chars * MsPerMinute, CharsPerWord * elapsedMs)
                    ELSE Rat(0, 1)
        accuracy == IF keystrokes > 0
                    THEN Rat(chars * 100, keystrokes)
                    ELSE Rat(100, 1)
        netWpm == RMul(wpmGross, Rat(accuracy.n, accuracy.d * 100))
    IN  [chars |-> chars,
         words |-> words,
         wpmGross |-> IF isFinite(wpmGross) THEN wpmGross ELSE Rat(0, 1),
         netWpm |-> IF isFinite(netWpm) THEN netWpm ELSE Rat(0, 1),
         accuracy |-> RMax(Rat(0, 1), RMin(Rat(100, 1), accuracy))]

stats == computeStats(text, activeElapsedMs, totalKeystrokes)

(* ------------------------ initial state ------------------------------- *)
Init ==
    /\ text = <<>>
    /\ isRunning = FALSE
    /\ startedAt = Null
    /\ lastStart = Null
    /\ accumulatedMs = 0
    /\ now = Clock0
    /\ totalKeystrokes = 0
    /\ backspaces = 0
    /\ timerMinutes = 0
    /\ clock = Clock0
    /\ lastOp = "mount"

(* ------------------------ timer auto-stop effect ---------------------- *)
\* the condition under which the effect pauses the session
ExpiryDue == timerEnabled /\ isRunning /\ activeElapsedMs >= timerMs /\ timerMs > 0

\* variant of autoStop: no isRunning check, and the interval since lastStart
\* (0 when null) is added to accumulatedMs
autoStop_noRunningCheck ==
    /\ IF timerEnabled /\ activeElapsedMs >= timerMs /\ timerMs > 0
       THEN /\ accumulatedMs' = accumulatedMs
                                 + (now - (IF lastStart = Null THEN 0 ELSE lastStart))
            /\ isRunning' = FALSE
            /\ lastStart' = Null
            /\ lastOp' = "autoStop"
       ELSE UNCHANGED <<accumulatedMs, isRunning, lastStart, lastOp>>
    /\ UNCHANGED <<text, startedAt, now, totalKeystrokes, backspaces,
                   timerMinutes, clock>>

autoStop ==
    /\ IF ~timerEnabled THEN UNCHANGED <<isRunning, lastStart>>
       ELSE IF ~isRunning THEN UNCHANGED <<isRunning, lastStart>>
       ELSE IF activeElapsedMs >= timerMs /\ timerMs > 0
            THEN isRunning' = FALSE /\ lastStart' = Null
            ELSE UNCHANGED <<isRunning, lastStart>>
    /\ lastOp' = IF ExpiryDue THEN "autoStop" ELSE lastOp
    /\ UNCHANGED <<text, startedAt, accumulatedMs, now, totalKeystrokes,
                   backspaces, timerMinutes, clock>>

(* ------------------------ environment --------------------------------- *)
\* wall-clock time passes
Advance(d) ==
    /\ clock + d <= Clock0 + MaxElapsed
    /\ clock' = clock + d
    /\ UNCHANGED <<text, isRunning, startedAt, lastStart, accumulatedMs, now,
                   totalKeystrokes, backspaces, timerMinutes, lastOp>>

\* variant of tick: the callback stores the time it already has
tick_keepsNow ==
    /\ ~ExpiryDue
    /\ isRunning
    /\ now' = now
    /\ lastOp' = "tick"
    /\ UNCHANGED <<text, isRunning, startedAt, lastStart, accumulatedMs,
                   totalKeystrokes, backspaces, timerMinutes, clock>>

\* the interval callback, installed only while running
tick ==
    /\ ~ExpiryDue
    /\ isRunning
    /\ now' = clock
    /\ lastOp' = "tick"
    /\ UNCHANGED <<text, isRunning, startedAt, lastStart, accumulatedMs,
                   totalKeystrokes, backspaces, timerMinutes, clock>>

(* ------------------------ event handlers ------------------------------ *)
\* variant of startIfNeeded: setLastStart(ts) is missing
startIfNeeded_noLastStart(ts) ==
    /\ startedAt' = IF startedAt = Null THEN ts ELSE startedAt
    /\ IF ~isRunning
       THEN isRunning' = TRUE /\ UNCHANGED lastStart
       ELSE UNCHANGED <<isRunning, lastStart>>

\* variant of startIfNeeded: startedAt is stamped on every call
startIfNeeded_restamps(ts) ==
    /\ startedAt' = ts
    /\ IF ~isRunning
       THEN isRunning' = TRUE /\ lastStart' = ts
       ELSE UNCHANGED <<isRunning, lastStart>>

startIfNeeded(ts) ==
    /\ startedAt' = IF startedAt = Null THEN ts ELSE startedAt
    /\ IF ~isRunning
       THEN isRunning' = TRUE /\ lastStart' = ts
       ELSE UNCHANGED <<isRunning, lastStart>>

handleChange(value) ==
    /\ ~ExpiryDue
    /\ value # text
    /\ IF Len(value) > 0 THEN startIfNeeded(clock)
       ELSE UNCHANGED <<startedAt, isRunning, lastStart>>
    /\ text' = value
    /\ lastOp' = "handleChange"
    /\ UNCHANGED <<accumulatedMs, now, totalKeystrokes, backspaces,
                   timerMinutes, clock>>

\* variant of isPrintable: every named key counts
isPrintable_anyKey(key) ==
    Len(key) >= 1 \/ key = "Enter" \/ key = "Tab" \/ key = " " \/ key = "Spacebar"

isPrintable(key) ==
    Len(key) = 1 \/ key = "Enter" \/ key = "Tab" \/ key = " " \/ key = "Spacebar"

\* variant of handleKeyDown: Backspace is counted in backspaces only
handleKeyDown_backspaceUncounted(key) ==
    /\ ~ExpiryDue
    /\ totalKeystrokes < MaxKeystrokes
    /\ totalKeystrokes' = totalKeystrokes
                          + (IF isPrintable(key) THEN 1 ELSE 0)
    /\ backspaces' = backspaces + (IF key = "Backspace" THEN 1 ELSE 0)
    /\ lastOp' = "handleKeyDown"
    /\ UNCHANGED <<text, isRunning, startedAt, lastStart, accumulatedMs, now,
                   timerMinutes, clock>>

handleKeyDown(key) ==
    /\ ~ExpiryDue
    /\ totalKeystrokes < MaxKeystrokes
    /\ totalKeystrokes' = totalKeystrokes
                          + (IF isPrintable(key) THEN 1 ELSE 0)
                          + (IF key = "Backspace" THEN 1 ELSE 0)
    /\ backspaces' = backspaces + (IF key = "Backspace" THEN 1 ELSE 0)
    /\ lastOp' = "handleKeyDown"
    /\ UNCHANGED <<text, isRunning, startedAt, lastStart, accumulatedMs, now,
                   timerMinutes, clock>>

\* variant of pauseResume: the interval replaces accumulatedMs instead of
\* being added to it
pauseResume_overwrites ==
    /\ ~ExpiryDue
    /\ LET ts == clock IN
       IF isRunning
       THEN /\ accumulatedMs' = IF lastStart # Null /\ lastStart # 0
                                THEN ts - lastStart
                                ELSE accumulatedMs
            /\ isRunning' = FALSE
            /\ lastStart' = Null
            /\ UNCHANGED startedAt
       ELSE /\ isRunning' = TRUE
            /\ lastStart' = ts
            /\ startedAt' = IF startedAt = Null THEN ts ELSE startedAt
            /\ UNCHANGED accumulatedMs
    /\ lastOp' = IF isRunning THEN "pause" ELSE "resume"
    /\ UNCHANGED <<text, now, totalKeystrokes, backspaces, timerMinutes, clock>>

\* variant of pauseResume: the interval ends at the last sampled tick time
\* instead of Date.now()
pauseResume_usesNow ==
    /\ ~ExpiryDue
    /\ LET ts == clock IN
       IF isRunning
       THEN /\ accumulatedMs' = IF lastStart # Null /\ lastStart # 0
                                THEN accumulatedMs + (now - lastStart)
                                ELSE accumulatedMs
            /\ isRunning' = FALSE
            /\ lastStart' = Null
            /\ UNCHANGED startedAt
       ELSE /\ isRunning' = TRUE
            /\ lastStart' = ts
            /\ startedAt' = IF startedAt = Null THEN ts ELSE startedAt
            /\ UNCHANGED accumulatedMs
    /\ lastOp' = IF isRunning THEN "pause" ELSE "resume"
    /\ UNCHANGED <<text, now, totalKeystrokes, backspaces, timerMinutes, clock>>

\* variant of pauseResume: a resume restarts the interval at the last sampled
\* tick time instead of Date.now()
pauseResume_resumesAtNow ==
    /\ ~ExpiryDue
    /\ LET ts == clock IN
       IF isRunning
       THEN /\ accumulatedMs' = IF lastStart # Null /\ lastStart # 0
                                THEN accumulatedMs + (ts - lastStart)
                                ELSE accumulatedMs
            /\ isRunning' = FALSE
            /\ lastStart' = Null
            /\ UNCHANGED startedAt
       ELSE /\ isRunning' = TRUE
            /\ lastStart' = now
            /\ startedAt' = IF startedAt = Null THEN ts ELSE startedAt
            /\ UNCHANGED accumulatedMs
    /\ lastOp' = IF isRunning THEN "pause" ELSE "resume"
    /\ UNCHANGED <<text, now, totalKeystrokes, backspaces, timerMinutes, clock>>

pauseResume ==
    /\ ~ExpiryDue
    /\ LET ts == clock IN
       IF isRunning
       THEN /\ accumulatedMs' = IF lastStart # Null /\ lastStart # 0
                                THEN accumulatedMs + (ts - lastStart)
                                ELSE accumulatedMs
            /\ isRunning' = FALSE
            /\ lastStart' = Null
            /\ UNCHANGED startedAt
       ELSE /\ isRunning' = TRUE
            /\ lastStart' = ts
            /\ startedAt' = IF startedAt = Null THEN ts ELSE startedAt
            /\ UNCHANGED accumulatedMs
    /\ lastOp' = IF isRunning THEN "pause" ELSE "resume"
    /\ UNCHANGED <<text, now, totalKeystrokes, backspaces, timerMinutes, clock>>

\* variant of resetAll: setAccumulatedMs(0) is missing
resetAll_keepsAccumulated ==
    /\ ~ExpiryDue
    /\ text' = <<>>
    /\ isRunning' = FALSE
    /\ startedAt' = Null
    /\ lastStart' = Null
    /\ UNCHANGED accumulatedMs
    /\ now' = clock
    /\ totalKeystrokes' = 0
    /\ backspaces' = 0
    /\ lastOp' = "resetAll"
    /\ UNCHANGED <<timerMinutes, clock>>

resetAll ==
    /\ ~ExpiryDue
    /\ text' = <<>>
    /\ isRunning' = FALSE
    /\ startedAt' = Null
    /\ lastStart' = Null
    /\ accumulatedMs' = 0
    /\ now' = clock
    /\ totalKeystrokes' = 0
    /\ backspaces' = 0
    /\ lastOp' = "resetAll"
    /\ UNCHANGED <<timerMinutes, clock>>

\* variant of setTimerMinutes: the handler itself pauses a running session
\* whose elapsed time has reached the new limit
setTimerMinutes_pausesWhenDue(n) ==
    /\ ~ExpiryDue
    /\ n # timerMinutes
    /\ timerMinutes' = n
    /\ lastOp' = "setTimerMinutes"
    /\ IF isRunning /\ n > 0 /\ activeElapsedMs >= n * MsPerMinute
       THEN isRunning' = FALSE /\ lastStart' = Null
       ELSE UNCHANGED <<isRunning, lastStart>>
    /\ UNCHANGED <<text, startedAt, accumulatedMs, now,
                   totalKeystrokes, backspaces, clock>>

setTimerMinutes(n) ==
    /\ ~ExpiryDue
    /\ n # timerMinutes
    /\ timerMinutes' = n
    /\ lastOp' = "setTimerMinutes"
    /\ UNCHANGED <<text, isRunning, startedAt, lastStart, accumulatedMs, now,
                   totalKeystrokes, backspaces, clock>>

(* ------------------------ timer display ------------------------------- *)
remainingMs ==
    IF timerEnabled
    THEN (IF timerMs - activeElapsedMs > 0 THEN timerMs - activeElapsedMs ELSE 0)
    ELSE 0

progress ==
    IF timerEnabled /\ timerMs > 0
    THEN RMin(Rat(100, 1), Rat(activeElapsedMs * 100, timerMs))
    ELSE Rat(0, 1)

(* ------------------------ time formatting ----------------------------- *)
\* str.padStart(2, "0") of a non-empty string
padStart2(str) == IF Len(str) < 2 THEN "0" \o str ELSE str

\* a % b of JavaScript: the remainder has the sign of a
jsRem(a, b) == IF a >= 0 THEN a % b ELSE 0 - ((0 - a) % b)

\* variant of formatTime: the seconds are rounded instead of floored
formatTime_roundsSeconds(ms) ==
    LET totalSeconds == (2 * ms + 1000) \div 2000
        m == padStart2(ToString(totalSeconds \div 60))
        sec == padStart2(ToString(jsRem(totalSeconds, 60)))
    IN  m \o ":" \o sec

formatTime(ms) ==
    LET totalSeconds == ms \div 1000
        m == padStart2(ToString(totalSeconds \div 60))
        sec == padStart2(ToString(jsRem(totalSeconds, 60)))
    IN  m \o ":" \o sec

formattedElapsed == formatTime(activeElapsedMs)
formattedRemaining == IF timerEnabled THEN formatTime(remainingMs) ELSE "-"

(* ------------------------ CSV export ---------------------------------- *)
\* Math.round(ms / 1000): the nearest integer, halves towards +infinity
roundSeconds(ms) == (2 * ms + 1000) \div 2000

\* Number(x.toFixed(2)) for x >= 0, as a count of hundredths
toFixed2(x) == (200 * x.n + x.d) \div (2 * x.d)

pad2(n) == IF n < 10 THEN "0" \o ToString(n) ELSE ToString(n)

\* String(h / 100): no fraction when it is zero, no trailing zero
hundredthsToString(h) ==
    LET ip == h \div 100
        fr == h % 100
    IN  IF fr = 0 THEN ToString(ip)
        ELSE IF fr % 10 = 0 THEN ToString(ip) \o "." \o ToString(fr \div 10)
        ELSE ToString(ip) \o "." \o pad2(fr)

\* new Date().toISOString(): the calendar formatting is not modelled; the
\* result is a comma-free token that names the instant
toISOString(ts) == "T" \o ToString(ts) \o "Z"

RECURSIVE join(_, _)
join(fields, sep) ==
    IF fields = <<>> THEN ""
    ELSE IF Len(fields) = 1 THEN fields[1]
    ELSE fields[1] \o sep \o join(Tail(fields), sep)

\* Object.keys(row)
headers == <<"date", "duration_seconds", "characters", "words", "wpm_gross",
             "wpm_net", "accuracy_percent", "keystrokes", "backspaces",
             "timer_minutes">>

\* Object.values(row), each converted to a string by join
values ==
    LET st == stats
    IN  <<toISOString(clock),
          ToString(roundSeconds(activeElapsedMs)),
          ToString(st.chars),
          ToString(st.words),
          hundredthsToString(toFixed2(st.wpmGross)),
          hundredthsToString(toFixed2(st.netWpm)),
          hundredthsToString(toFixed2(st.accuracy)),
          ToString(totalKeystrokes),
          ToString(backspaces),
          ToString(timerMinutes)>>

\* the separator written by the source is the string literal "\\n": a
\* backslash followed by the letter n
csv == join(headers, ",") \o "\\n" \o join(values, ",") \o "\\n"

downloadReport ==
    /\ ~ExpiryDue
    /\ lastOp' = "downloadReport"
    /\ UNCHANGED <<text, isRunning, startedAt, lastStart, accumulatedMs, now,
                   totalKeystrokes, backspaces, timerMinutes, clock>>

Next ==
    \/ \E d \in Steps : Advance(d)
    \/ tick
    \/ autoStop
    \/ \E value \in Texts : handleChange(value)
    \/ \E key \in Keys : handleKeyDown(key)
    \/ pauseResume
    \/ resetAll
    \/ \E n \in TimerChoices : setTimerMinutes(n)
    \/ downloadReport

Spec == Init /\ [][Next]_vars

TypeOK ==
    /\ text \in Texts
    /\ isRunning \in BOOLEAN
    /\ startedAt \in {Null} \cup Int
    /\ lastStart \in {Null} \cup Int
    /\ accumulatedMs \in Int
    /\ now \in Int
    /\ totalKeystrokes \in 0..MaxKeystrokes
    /\ backspaces \in 0..MaxKeystrokes
    /\ timerMinutes \in TimerOptions
    /\ clock \in Int
    /\ lastOp \in STRING

(* ======================== properties ================================== *)
\* times at which the elapsed time is observed after a step
ObsTimes == {clock' + d : d \in {0} \cup Steps}

\* C1: when the timer expires while running, the session stops and the
\* active elapsed time is frozen: right after the expiry it is not running
\* and the active elapsed time is still at least the timer duration.
C1_ExpiryFreezesElapsed ==
    [][(ExpiryDue /\ autoStop) =>
          (~isRunning' /\ activeElapsedMs' >= timerMs')]_vars

\* C2: lastStart is set if and only if isRunning is true.
C2_LastStartIffRunning == (lastStart # Null) <=> isRunning

C2_Witness ==
    /\ lastOp = "autoStop" /\ ~isRunning /\ lastStart = Null
    /\ text # <<>> /\ clock > Clock0

\* C3: accumulatedMs decreases only on reset, and it changes only on a
\* pause, a timer expiry or a reset.
C3_AccumulatedMonotone ==
    [][/\ accumulatedMs' < accumulatedMs => resetAll
       /\ accumulatedMs' # accumulatedMs =>
              \/ isRunning /\ pauseResume
              \/ ExpiryDue /\ autoStop
              \/ resetAll]_vars

C3_Witness ==
    /\ lastOp = "pause" /\ accumulatedMs = 60000 /\ startedAt = Clock0
    /\ clock = Clock0 + 90000

\* C4: a pause at time t leaves the active elapsed time at the value it had
\* at t just before the pause, whatever the later observation time, and the
\* value does not change while the session stays paused.
C4_PauseFreezesElapsed ==
    [][/\ (isRunning /\ pauseResume) =>
              /\ ~isRunning'
              /\ \A t \in ObsTimes :
                     getActiveElapsedMs(t)' = getActiveElapsedMs(clock)
       /\ (~isRunning /\ ~isRunning' /\ ~resetAll) =>
              \A t \in ObsTimes :
                     getActiveElapsedMs(t)' = getActiveElapsedMs(clock)]_vars

C4_Witness ==
    /\ lastOp = "pause" /\ ~isRunning /\ accumulatedMs = 60000
    /\ now < clock /\ now - startedAt < 60000

\* C5: a text change starts the session exactly when the previous text was
\* empty and the new text is not; otherwise isRunning and lastStart are
\* left as they were.
C5_ChangeStartsOnlyFromEmpty ==
    [][\A value \in Texts : handleChange(value) =>
          /\ text' = value
          /\ IF text = <<>> /\ value # <<>>
             THEN isRunning' /\ lastStart' # Null
             ELSE UNCHANGED <<isRunning, lastStart>>]_vars

\* C6: reset yields the initial session (empty text, not running, no
\* timestamps, zero counters and accumulated time), hence the stats of an
\* empty session, and leaves the timer minutes unchanged.
C6_ResetRestoresInitial ==
    [][(lastOp' = "resetAll" /\ resetAll) =>
          /\ text' = <<>> /\ ~isRunning'
          /\ startedAt' = Null /\ lastStart' = Null
          /\ accumulatedMs' = 0 /\ totalKeystrokes' = 0 /\ backspaces' = 0
          /\ LET st == computeStats(text', activeElapsedMs', totalKeystrokes')
             IN  /\ st.chars = 0 /\ st.words = 0
                 /\ st.wpmGross.n = 0 /\ st.netWpm.n = 0
                 /\ REq(st.accuracy, Rat(100, 1))
          /\ \A t \in ObsTimes : getActiveElapsedMs(t)' = 0
          /\ activeElapsedMs' = 0
          /\ timerMinutes' = timerMinutes]_vars

C6_Witness ==
    /\ lastOp = "resetAll" /\ timerMinutes = 1 /\ clock = Clock0 + 60000
    /\ text = <<>> /\ accumulatedMs = 0

\* C7: once the session is not running, evaluating the timer-expiry check
\* again changes no state variable; an expiry leaves the check disabled.
C7_ExpiryCheckRepeatable ==
    [][autoStop =>
          /\ ~isRunning => UNCHANGED <<session, now, timerMinutes>>
          /\ ExpiryDue => (~isRunning' /\ ~ExpiryDue')]_vars

C7_Witness ==
    /\ lastOp = "autoStop" /\ ~isRunning /\ timerMinutes = 1
    /\ startedAt = Clock0 /\ now = Clock0 + 60000 /\ clock = Clock0 + 90000

\* C8: a printable key adds 1 to totalKeystrokes only, Backspace adds 1 to
\* totalKeystrokes and to backspaces, any other key changes neither; the
\* text and the timing state are untouched.
C8_Printable == {"a", " ", "Enter", "Tab", "Spacebar"}

C8_KeyEventEffect ==
    [][\A key \in Keys : (lastOp' = "handleKeyDown" /\ handleKeyDown(key)) =>
          /\ totalKeystrokes' - totalKeystrokes =
                 IF key \in C8_Printable \cup {"Backspace"} THEN 1 ELSE 0
          /\ backspaces' - backspaces = IF key = "Backspace" THEN 1 ELSE 0
          /\ UNCHANGED <<text, isRunning, startedAt, lastStart,
                         accumulatedMs>>]_vars

C8_Witness ==
    /\ lastOp = "handleKeyDown" /\ totalKeystrokes = 2 /\ backspaces = 1
    /\ isRunning

\* C9: netWpm = grossWpm * accuracyPercent / 100 with the reported (clamped)
\* accuracy, hence netWpm <= grossWpm.
C9_NetIsGrossTimesAccuracy ==
    /\ REq(stats.netWpm,
           RMul(stats.wpmGross, Rat(stats.accuracy.n, stats.accuracy.d * 100)))
    /\ RLeq(stats.netWpm, stats.wpmGross)

\* C10: accuracy lies in [0,100], is 100 without keystrokes and otherwise
\* min(100, chars/totalKeystrokes*100); grossWpm is 0 when the active elapsed
\* time is not positive and otherwise (chars/5)/(activeElapsedMs/60000).
C10_AccuracyAndGross ==
    LET st == stats IN
    /\ RLeq(Rat(0, 1), st.accuracy) /\ RLeq(st.accuracy, Rat(100, 1))
    /\ totalKeystrokes = 0 => REq(st.accuracy, Rat(100, 1))
    /\ totalKeystrokes > 0 =>
          IF Len(text) >= totalKeystrokes
          THEN REq(st.accuracy, Rat(100, 1))
          ELSE st.accuracy.n * totalKeystrokes = 100 * Len(text) * st.accuracy.d
    /\ activeElapsedMs <= 0 => st.wpmGross.n = 0
    /\ activeElapsedMs > 0 =>
          REq(st.wpmGross, Rat(12000 * Len(text), activeElapsedMs))

C10_Witness ==
    /\ totalKeystrokes = 0 /\ Len(text) = 2 /\ activeElapsedMs = 60000
    /\ REq(stats.wpmGross, Rat(2, 5)) /\ REq(stats.accuracy, Rat(100, 1))

(* ------------------------ unattended session --------------------------- *)
\* A session with the timer on that has just been started by a first text
\* change; from then on no user command arrives: only the clock, the interval
\* callback and the auto-stop effect act.
LiveInit ==
    /\ text \in Texts \ {<<>>}
    /\ isRunning = TRUE
    /\ clock \in {Clock0 + d : d \in {0} \cup Steps}
    \* every limit that can be chosen ends within the explored clock range
    /\ \A n \in TimerChoices : (clock - Clock0) + n * MsPerMinute <= MaxLiveElapsed
    /\ startedAt = clock
    /\ lastStart = clock
    /\ accumulatedMs = 0
    /\ now = Clock0
    /\ totalKeystrokes \in 0..MaxKeystrokes
    /\ backspaces \in 0..totalKeystrokes
    /\ timerMinutes \in TimerChoices \ {0}
    /\ lastOp = "handleChange"

LiveAdvance(d) ==
    /\ clock + d <= Clock0 + MaxLiveElapsed
    /\ clock' = clock + d
    /\ UNCHANGED <<text, isRunning, startedAt, lastStart, accumulatedMs, now,
                   totalKeystrokes, backspaces, timerMinutes, lastOp>>

LiveNext ==
    \/ \E d \in Steps : LiveAdvance(d)
    \/ tick
    \/ autoStop

\* the clock advances, the interval fires while the session runs, and the
\* effect runs after every render
LiveSpec ==
    /\ LiveInit
    /\ [][LiveNext]_vars
    /\ WF_vars(\E d \in Steps : LiveAdvance(d))
    /\ WF_vars(tick)
    /\ WF_vars(autoStop)

(* ------------------------ word-count sessions -------------------------- *)
\* Sessions in which the clock stands still and the textarea is given longer
\* texts, with line breaks as well as spaces.
WordChars == {"a", " ", "\n"}
WordTexts == UNION {[1..n -> WordChars] : n \in 0..MaxWordTextLen}

WordNext ==
    \/ \E value \in WordTexts : handleChange(value)
    \/ pauseResume
    \/ resetAll

WordSpec == Init /\ [][WordNext]_vars

(* ------------------------ formatted-time sessions ---------------------- *)
\* elapsed times on both sides of every second boundary, and around 10 and
\* 100 minutes
FormatElapsed ==
    {k * 1000 + r : k \in 0..MaxFormatSeconds, r \in {0, 999}}
        \cup {m * MsPerMinute + r : m \in {9, 10, 99, 100}, r \in {0, 59999}}

\* A session that ran from the mount for some time and was then paused at
\* the instant of a tick; the clock stands still afterwards.
FormatInit ==
    /\ text = <<"a">>
    /\ isRunning = FALSE
    /\ startedAt = Clock0
    /\ lastStart = Null
    /\ accumulatedMs \in FormatElapsed
    /\ clock = Clock0 + accumulatedMs
    /\ now = clock
    /\ totalKeystrokes = 0
    /\ backspaces = 0
    /\ timerMinutes = 0
    /\ lastOp = "pause"

FormatNext ==
    \/ pauseResume
    \/ \E n \in TimerChoices : setTimerMinutes(n)
    \/ autoStop

FormatSpec == FormatInit /\ [][FormatNext]_vars

\* C11: setTimerMinutes(n) replaces the timer minutes and nothing else: the
\* session state (running flag, timestamps, accumulated time, text and
\* counters) is unchanged, so a running session whose elapsed time has
\* reached the new limit is still running until the expiry check acts.
C11_SetTimerOnlyConfig ==
    [][\A n \in TimerChoices :
          (lastOp' = "setTimerMinutes" /\ setTimerMinutes(n)) =>
              (timerMinutes' = n /\ UNCHANGED <<session, now>>)]_vars

C11_Witness ==
    /\ lastOp = "setTimerMinutes" /\ timerMinutes = 1 /\ isRunning
    /\ activeElapsedMs >= timerMs

\* C12: the toggle pauses a running session and starts one that is not
\* running, stamping the current time; a start followed by a pause at the
\* same timestamp leaves the session not running with accumulatedMs, and so the active elapsed time,
\* at its value before the two toggles (0 from Idle).
C12_ToggleTwiceSameTime ==
    [][/\ (~isRunning /\ pauseResume) =>
              (isRunning' /\ lastStart' = clock /\ accumulatedMs' = accumulatedMs)
       /\ (isRunning /\ pauseResume) => ~isRunning'
       /\ (lastOp = "resume" /\ lastStart = clock /\ pauseResume) =>
              /\ ~isRunning'
              /\ accumulatedMs' = accumulatedMs
              /\ activeElapsedMs' = accumulatedMs]_vars

C12_Witness ==
    /\ lastOp = "pause" /\ ~isRunning /\ text = <<>>
    /\ startedAt = clock /\ clock > now /\ accumulatedMs = 0

\* C13: a start trigger that arrives while running changes neither lastStart
\* nor accumulatedMs; startedAt, once set, keeps its value until reset clears
\* it; isRunning implies that startedAt is set.
C13_StartIdempotent ==
    [][/\ \A value \in Texts :
              (isRunning /\ lastOp' = "handleChange" /\ handleChange(value)) =>
                  UNCHANGED <<isRunning, lastStart, accumulatedMs>>
       /\ (startedAt # Null /\ ~resetAll) => startedAt' = startedAt
       /\ isRunning' => startedAt' # Null]_vars

C13_Witness ==
    /\ lastOp = "handleChange" /\ isRunning /\ accumulatedMs > 0
    /\ startedAt < lastStart /\ lastStart < clock

\* the pieces of s between occurrences of the one-character string ch
C14_Split(s, ch) ==
    LET pos == {i \in 1..Len(s) : SubSeq(s, i, i) = ch}
        n == Cardinality(pos)
        nth(k) == CHOOSE i \in pos : Cardinality({j \in pos : j < i}) = k - 1
    IN  [k \in 1..(n + 1) |->
            SubSeq(s, IF k = 1 THEN 1 ELSE nth(k - 1) + 1,
                      IF k = n + 1 THEN Len(s) ELSE nth(k) - 1)]

\* the rows of a file: its lines, without the empty piece after a final
\* line break
C14_Rows(s) ==
    LET ls == C14_Split(s, "\n")
    IN  IF ls[Len(ls)] = "" THEN SubSeq(ls, 1, Len(ls) - 1) ELSE ls

\* C14: the exported CSV is a header row of the ten field names followed,
\* after a line break, by exactly one data row of ten comma-separated values
\* that equal the current state; building it changes no session state.
C14_CsvTwoRows ==
    [][(lastOp' = "downloadReport" /\ downloadReport) =>
          /\ UNCHANGED <<session, now, timerMinutes>>
          /\ LET rows == C14_Rows(csv)
             IN  /\ Len(rows) = 2
                 /\ C14_Split(rows[1], ",") = headers
                 /\ LET f == C14_Split(rows[2], ",")
                    IN  /\ Len(f) = 10
                        /\ f[2] = ToString(roundSeconds(activeElapsedMs))
                        /\ f[3] = ToString(Len(text))
                        /\ f[8] = ToString(totalKeystrokes)
                        /\ f[9] = ToString(backspaces)
                        /\ f[10] = ToString(timerMinutes)]_vars

\* C15: with the timer on, a running session that no user command touches is
\* eventually paused (not running, lastStart cleared), and an expiry
\* evaluation at which the active elapsed time has reached the limit never
\* leaves it running.
C15_AutoStopEventually ==
    /\ (timerEnabled /\ isRunning) ~> (~isRunning /\ lastStart = Null)
    /\ [][(ExpiryDue /\ autoStop) => (~isRunning' /\ lastStart' = Null)]_vars

C15_Witness ==
    /\ lastOp = "autoStop" /\ ~isRunning /\ lastStart = Null
    /\ timerMinutes = 3 /\ now - startedAt >= 180000

\* C16: the active elapsed time the widget shows, accumulatedMs plus the
\* running interval measured up to the last sampled tick time, is never
\* negative and never smaller than accumulatedMs.
C16_ElapsedNonNegative ==
    /\ activeElapsedMs >= 0
    /\ activeElapsedMs >= accumulatedMs

\* C17: the timer progress lies in [0,100], equals
\* min(100, elapsed/timerMs*100) with the timer on and 0 with it off; the
\* remaining time lies in [0, timerMs] and equals max(0, timerMs - elapsed)
\* with the timer on.
C17_ProgressAndRemainingInRange ==
    /\ RLeq(Rat(0, 1), progress) /\ RLeq(progress, Rat(100, 1))
    /\ 0 <= remainingMs /\ remainingMs <= timerMs
    /\ timerMinutes = 0 => progress.n = 0
    /\ timerMinutes > 0 =>
          /\ IF activeElapsedMs >= timerMs
             THEN REq(progress, Rat(100, 1))
             ELSE progress.n * timerMs = activeElapsedMs * 100 * progress.d
          /\ IF activeElapsedMs >= timerMs
             THEN remainingMs = 0
             ELSE remainingMs = timerMs - activeElapsedMs

\* C18: 0 <= backspaces <= totalKeystrokes in every state; the two counters
\* change only on a key event or a reset, and they decrease only on a reset.
C18_CountersOrdered ==
    [][/\ 0 <= backspaces' /\ backspaces' <= totalKeystrokes'
       /\ (totalKeystrokes' # totalKeystrokes \/ backspaces' # backspaces) =>
              \/ lastOp' = "handleKeyDown" /\ \E key \in Keys : handleKeyDown(key)
              \/ resetAll
       /\ (totalKeystrokes' < totalKeystrokes \/ backspaces' < backspaces) =>
              resetAll]_vars

C18_Witness ==
    /\ lastOp = "handleKeyDown" /\ backspaces = MaxKeystrokes
    /\ totalKeystrokes = MaxKeystrokes /\ text # <<>>

\* C19: wordCount is the number of maximal runs of non-whitespace characters
\* of the text, so 0 for an empty or all-whitespace text, whatever the
\* leading, trailing or repeated whitespace; characterCount is the full
\* length of the text.
C19_Space == {" ", "\n", "\t"}

C19_Runs(s) ==
    Cardinality({i \in 1..Len(s) :
                   s[i] \notin C19_Space /\ (i = 1 \/ s[i-1] \in C19_Space)})

C19_WordCount ==
    /\ stats.words = C19_Runs(text)
    /\ (\A i \in 1..Len(text) : text[i] \in C19_Space) => stats.words = 0
    /\ stats.chars = Len(text)

C19_Witness ==
    /\ text = <<" ", "a", "\n", "a">> /\ stats.words = 2 /\ stats.chars = 4

\* the number written by a string of decimal digits
RECURSIVE C20_Value(_)
C20_Value(str) ==
    IF Len(str) = 0 THEN 0
    ELSE 10 * C20_Value(SubSeq(str, 1, Len(str) - 1))
         + (CHOOSE d \in 0..9 : ToString(d) = SubSeq(str, Len(str), Len(str)))

C20_IsMMSS(str, ms) ==
    LET parts == C14_Split(str, ":")
    IN  /\ Len(parts) = 2
        /\ Len(parts[1]) >= 2 /\ Len(parts[2]) = 2
        /\ Len(parts[1]) > 2 => SubSeq(parts[1], 1, 1) # "0"
        /\ C20_Value(parts[1]) = (ms \div 1000) \div 60
        /\ C20_Value(parts[2]) = (ms \div 1000) % 60
        /\ C20_Value(parts[2]) \in 0..59

\* C20: for ms >= 0, formatTime(ms) reads MM:SS with
\* MM = floor(floor(ms/1000)/60) and SS = floor(ms/1000) mod 60, each padded
\* with zeros to at least two digits; formatTime(125000) = "02:05" and
\* formatTime(59999) = "00:59".
C20_FormatTime ==
    /\ activeElapsedMs >= 0 => C20_IsMMSS(formattedElapsed, activeElapsedMs)
    /\ timerEnabled => C20_IsMMSS(formattedRemaining, remainingMs)
    /\ activeElapsedMs = 125000 => formattedElapsed = "02:05"
    /\ activeElapsedMs = 59999 => formattedElapsed = "00:59"

C20_Witness ==
    /\ activeElapsedMs = 125000 /\ formattedElapsed = "02:05"
    /\ timerMinutes = 3 /\ formattedRemaining = "00:55"
====
